---- MODULE Spec2Model ----
(***************************************************************************)
(* The durable, priority-ordered outbound event queue of                   *)
(* tda-game-analytics-sdk (src/src/lib/queue-manager.ts) together with the *)
(* collaborators it consumes: the persisted store (localStorage) and the   *)
(* transport (TDAGameAnalyticsSDK.sendRawData).                            *)
(*                                                                         *)
(* JavaScript objects are shared by reference between the live queue and   *)
(* the snapshots of the drains in flight.  An item's id is unique, so the  *)
(* model keeps one record per copy and updates every copy with the same id *)
(* when the code mutates the object (item.retries++).                      *)
(***************************************************************************)
EXTENDS Integers, Sequences, FiniteSets, TLC

VARIABLES
    queue,      \* QueueManager.queue: the live in-memory sequence of items
    store,      \* localStorage entry 'ga_queue'
    drains,     \* the processQueue invocations: position, snapshot, outcomes
    nextId,     \* the next fresh id crypto.randomUUID() hands out
    clock,      \* Date.now()
    restarts,   \* number of page reloads so far
    failed,     \* per id: number of failed delivery attempts so far (history)
    raised,     \* an exception crossed the public boundary (history)
    overlapped, \* a drain was started while another one was pending (history)
    faults,     \* number of operations in which a storage call failed (history)
    tampered,   \* the stored record was damaged from outside (history)
    last,       \* what the last operation did: cuts made, messages logged
    cycles,     \* the sendData invocations of the SDK: position, payload
    included    \* per id: number of drains whose snapshot held the item (history)

vars == <<queue, store, drains, nextId, clock, restarts, failed,
          raised, overlapped, faults, tampered, last, cycles, included>>

----------------------------------------------------------------------------
(* Program constants *)

CRITICAL == 1
HIGH == 2
NORMAL == 3
MAX_RETRIES == 3
MAX_ATTEMPTS == 5

(* Bounds of the model *)

MaxEnq == 3        \* enqueues in one behaviour
MaxEnqDurable == 2 \* enqueues in one behaviour with page reloads
MaxDrains == 2     \* processQueue invocations that may be pending at once
MaxRestarts == 1   \* page reloads in one behaviour
MaxFaults == 1     \* operations of one behaviour that meet a failing medium
MaxCap == 1        \* largest finite quota (in entries) of the medium
MaxK == 10         \* largest queue handed to the overflow handling on its own
MaxCycles == 2     \* sendData invocations that may be pending at once
MaxEnqSdk == 2     \* payloads sendData queues in one behaviour
MaxEnqTrack == 3   \* items the producers of the SDK queue in one behaviour

Priorities == {CRITICAL, HIGH, NORMAL}
Ids == 1..(MaxK + 1)
DrainIds == 1..MaxDrains
CycleIds == 1..MaxCycles

(* Payloads.  "plain" is a payload of JSON values only.  "rich" is a       *)
(* payload JSON cannot carry as it is (an Error, a Date or a Promise       *)
(* inside it, NaN, a property holding undefined): JSON.stringify writes it  *)
(* "flattened".  "undefined" is a missing payload: JSON.stringify leaves    *)
(* the data key out and the parsed entry has no data.  "unserializable" is  *)
(* a payload JSON.stringify throws a TypeError on (a circular object, a     *)
(* BigInt).                                                                 *)
DataValues == {"plain", "rich", "undefined", "unserializable"}

(* The payloads the producers of the SDK build, by their type field, and   *)
(* the same payloads when the caller's part of them (the context of an     *)
(* error report, the payload of a custom event) is one JSON.stringify      *)
(* throws on: a circular object such as the context: this of the           *)
(* TrackEvent decorator, a BigInt.                                         *)
ErrorPayloads == {"error", "errorUnserializable"}
EventPayloads == {"customEvent", "customEventUnserializable"}

(* The payloads of sendData: session.deviceInfo is the promise the async   *)
(* getDeviceInfo returned, so the payload is "rich" at best, and with a    *)
(* custom collector that returns a BigInt it is "unserializable".          *)
SendPayloads == {"rich", "unserializable"}

Unserializable == {"unserializable", "errorUnserializable", "customEventUnserializable"}

(* A stored field whose typeof is neither 'string' nor 'number'. *)
WrongType == -1

----------------------------------------------------------------------------
(* Array helpers *)

Slice(q, n) == SubSeq(q, n + 1, Len(q))

(* mutant: the removal cuts the array at the item instead of filtering by id *)
FilterOut_truncates(q, id) == SelectSeq(q, LAMBDA it : it.id < id)

FilterOut(q, id) == SelectSeq(q, LAMBDA it : it.id # id)

IdsOf(q) == {q[i].id : i \in 1..Len(q)}

Front(q) == SubSeq(q, 1, Len(q) - 1)

(* mutant: a sort that is not stable (ties come out reversed) *)
InsertByPriority_unstable(s, x) ==
    LET keep == {i \in 1..Len(s) : s[i].priority < x.priority}
        k == IF keep = {} THEN 0 ELSE CHOOSE i \in keep : \A j \in keep : j <= i
    IN SubSeq(s, 1, k) \o <<x>> \o SubSeq(s, k + 1, Len(s))

(* Array.prototype.sort((a, b) => a.priority - b.priority): stable. *)
InsertByPriority(s, x) ==
    LET keep == {i \in 1..Len(s) : s[i].priority <= x.priority}
        k == IF keep = {} THEN 0 ELSE CHOOSE i \in keep : \A j \in keep : j <= i
    IN SubSeq(s, 1, k) \o <<x>> \o SubSeq(s, k + 1, Len(s))

RECURSIVE SortByPriority(_)
SortByPriority(q) ==
    IF q = <<>> THEN <<>>
    ELSE InsertByPriority(SortByPriority(Front(q)), q[Len(q)])

----------------------------------------------------------------------------
(* The persisted record *)

NoRecord == [kind |-> "none", items |-> <<>>]
CorruptRecord == [kind |-> "corrupt", items |-> <<>>]
NotArrayRecord == [kind |-> "notarray", items |-> <<>>]
ArrayRecord(s) == [kind |-> "array", items |-> s]

(* JSON.stringify followed by JSON.parse on a payload *)
JsonData(d) == IF d = "rich" THEN "flattened" ELSE d

ToStored(it) ==
    [id |-> it.id, timestamp |-> it.timestamp, data |-> JsonData(it.data),
     priority |-> it.priority, retries |-> it.retries]

Serialize(q) == [i \in 1..Len(q) |-> ToStored(q[i])]

(* JSON.stringify(dataToSave) returns, it does not throw *)
Stringifiable(q) == \A i \in 1..Len(q) : q[i].data \notin Unserializable

(* localStorage.setItem on a record of n entries.  The medium an operation *)
(* meets is an input of the operation: "ok" takes every write, "other"     *)
(* throws an error that is not a quota error, "quota" throws               *)
(* QuotaExceededError for a record of more than cap entries.               *)
MediumOk == [mode |-> "ok", cap |-> 0]
MediumOther == [mode |-> "other", cap |-> 0]
MediumQuota(c) == [mode |-> "quota", cap |-> c]
Media == {MediumOk, MediumOther} \cup {MediumQuota(c) : c \in -1..MaxCap}

SetItem(n, m) ==
    IF m.mode = "other" THEN "other"
    ELSE IF m.mode = "quota" /\ n > m.cap THEN "quota"
    ELSE "ok"

(* Math.ceil(length * (0.2 * attempt)) in IEEE doubles: 0.2 * 3 is          *)
(* 0.6000000000000001, so a multiple of 5 rounds one up for attempt 3.      *)
CeilPercent(n, attempt) ==
    LET exact == (n * attempt + 4) \div 5
    IN IF attempt = 3 /\ n > 0 /\ n % 5 = 0 THEN exact + 1 ELSE exact

SaveResult(q, st, cuts, logs, fails, threw) ==
    [queue |-> q, store |-> st, cuts |-> cuts, logs |-> logs,
     fails |-> fails, threw |-> threw]

RECURSIVE SaveToStorage(_, _, _)
RECURSIVE HandleStorageOverflow(_, _, _, _)

(* mutant: saveToStorage lets an error that is no quota error escape *)
SaveToStorage_rethrows(q, st, m) ==
    LET outcome == SetItem(Len(q), m)
    IN IF ~Stringifiable(q)
       THEN SaveResult(q, st, <<>>, <<"save_failed">>, 1, "other")
       ELSE IF outcome = "ok"
       THEN SaveResult(q, ArrayRecord(Serialize(q)), <<>>, <<>>, 0, "none")
       ELSE IF outcome = "quota"
            THEN [HandleStorageOverflow(q, st, m, 1)
                    EXCEPT !.logs = <<"save_failed">> \o @, !.fails = @ + 1]
            ELSE SaveResult(q, st, <<>>, <<"save_failed">>, 1, "other")

(* mutant: saveToStorage starts the overflow handling on every error *)
SaveToStorage_anyError(q, st, m) ==
    LET outcome == SetItem(Len(q), m)
    IN IF Stringifiable(q) /\ outcome = "ok"
       THEN SaveResult(q, ArrayRecord(Serialize(q)), <<>>, <<>>, 0, "none")
       ELSE [HandleStorageOverflow(q, st, m, 1)
               EXCEPT !.logs = <<"save_failed">> \o @, !.fails = @ + 1]

(* saveToStorage: JSON.stringify and setItem are in one try block; the     *)
(* catch block logs, and starts the overflow handling on a quota error;    *)
(* nothing is rethrown.  The TypeError of JSON.stringify is no quota       *)
(* error, and it is thrown before setItem is called.                       *)
SaveToStorage(q, st, m) ==
    LET outcome == SetItem(Len(q), m)
    IN IF ~Stringifiable(q)
       THEN SaveResult(q, st, <<>>, <<"save_failed">>, 1, "none")
       ELSE IF outcome = "ok"
       THEN SaveResult(q, ArrayRecord(Serialize(q)), <<>>, <<>>, 0, "none")
       ELSE IF outcome = "quota"
            THEN [HandleStorageOverflow(q, st, m, 1)
                    EXCEPT !.logs = <<"save_failed">> \o @, !.fails = @ + 1]
            ELSE SaveResult(q, st, <<>>, <<"save_failed">>, 1, "none")

(* r, then the rest of the handling n, as one result *)
AndThen(r, n) ==
    [n EXCEPT !.cuts = r.cuts \o @, !.logs = r.logs \o @, !.fails = r.fails + @]

(* mutant: the handling that runs out of items or attempts logs nothing *)
HandleStorageOverflow_silent(q, st, m, attempt) ==
    IF attempt <= MAX_ATTEMPTS /\ Len(q) > 0
    THEN LET r == [SaveToStorage(Slice(q, CeilPercent(Len(q), attempt)), st, m)
                     EXCEPT !.cuts = <<CeilPercent(Len(q), attempt)>> \o @]
         IN IF r.threw = "none"
            THEN r
            ELSE IF r.threw = "quota"
                 THEN AndThen(r, HandleStorageOverflow(r.queue, r.store, m, attempt + 1))
                 ELSE [r EXCEPT !.threw = "none"]
    ELSE SaveResult(q, st, <<>>, <<>>, 0, "none")

(* mutant: the loop does not return after a save that succeeded *)
HandleStorageOverflow_goesOn(q, st, m, attempt) ==
    IF attempt <= MAX_ATTEMPTS /\ Len(q) > 0
    THEN LET r == [SaveToStorage(Slice(q, CeilPercent(Len(q), attempt)), st, m)
                     EXCEPT !.cuts = <<CeilPercent(Len(q), attempt)>> \o @]
         IN AndThen(r, HandleStorageOverflow(r.queue, r.store, m, attempt + 1))
    ELSE SaveResult(q, st, <<>>, <<"overflow_unresolved">>, 0, "none")

(* handleStorageOverflow from the given attempt on: one cut and one save;  *)
(* the loop goes on only if that save throws a quota error.                *)
HandleStorageOverflow(q, st, m, attempt) ==
    IF attempt <= MAX_ATTEMPTS /\ Len(q) > 0
    THEN LET r == [SaveToStorage(Slice(q, CeilPercent(Len(q), attempt)), st, m)
                     EXCEPT !.cuts = <<CeilPercent(Len(q), attempt)>> \o @]
         IN IF r.threw = "none"
            THEN r
            ELSE IF r.threw = "quota"
                 THEN AndThen(r, HandleStorageOverflow(r.queue, r.store, m, attempt + 1))
                 ELSE [r EXCEPT !.logs = @ \o <<"overflow_unresolved">>, !.threw = "none"]
    ELSE SaveResult(q, st, <<>>, <<"overflow_unresolved">>, 0, "none")

(* mutant: the removal is not persisted *)
RemoveFromQueue_unsaved(q, st, m, id) ==
    SaveResult(FilterOut(q, id), st, <<>>, <<>>, 0, "none")

RemoveFromQueue(q, st, m, id) == SaveToStorage(FilterOut(q, id), st, m)

(* loadFromStorage *)

(* mutant: retries is tested for truth, so a count of 0 does not pass *)
ValidEntry_truthy(e) ==
    /\ e.id # WrongType
    /\ e.timestamp # WrongType
    /\ e.priority # WrongType
    /\ e.retries # WrongType /\ e.retries # 0
    /\ e.data # "undefined"

(* mutant: the data of an entry is not checked *)
ValidEntry_anyData(e) ==
    /\ e.id # WrongType
    /\ e.timestamp # WrongType
    /\ e.priority # WrongType
    /\ e.retries # WrongType

ValidEntry(e) ==
    /\ e.id # WrongType
    /\ e.timestamp # WrongType
    /\ e.priority # WrongType
    /\ e.retries # WrongType
    /\ e.data # "undefined"

(* The catch block of loadFromStorage: log, and remove the stored record. *)
(* this.queue is still the empty array of the field initialiser.           *)
(* removeItem is a storage call with no handler around it: when it throws  *)
(* too (access to storage denied), the error leaves loadFromStorage and    *)
(* the constructor, and the record stays.                                  *)
LoadCaught(st, removeThrows) ==
    [queue |-> <<>>,
     store |-> IF removeThrows THEN st ELSE NoRecord,
     logs |-> <<"load_failed">>,
     threw |-> IF removeThrows THEN "other" ELSE "none"]

LoadFromStorage(st) ==
    IF st.kind = "none" THEN [queue |-> <<>>, store |-> st, logs |-> <<>>, threw |-> "none"]
    ELSE IF st.kind = "corrupt"
         THEN LoadCaught(st, FALSE)
    ELSE IF st.kind = "array"
         THEN [queue |-> SelectSeq(st.items, ValidEntry), store |-> st, logs |-> <<>>,
               threw |-> "none"]
    ELSE [queue |-> <<>>, store |-> st, logs |-> <<>>, threw |-> "none"]

----------------------------------------------------------------------------
(* State *)

IdleDrain == [pc |-> "idle", snapshot |-> <<>>, idx |-> 0, outcomes |-> <<>>,
              startNext |-> 0, startFaults |-> 0]

(* What the last operation did: the operation, the medium it met when a   *)
(* write failed, the cuts of the overflow handling, the messages logged,   *)
(* and for a reload the queue and the record it found.                     *)
NoSave == [cuts |-> <<>>, logs |-> <<>>, fails |-> 0]
NoBefore == [queue |-> <<>>, store |-> NoRecord]

Did(op, m, r) ==
    [op |-> op, medium |-> IF r.fails > 0 THEN m ELSE MediumOk,
     cuts |-> r.cuts, logs |-> r.logs, before |-> NoBefore]

(* A sendData invocation: where it is, whether it found the client online, *)
(* the payload it built ("none": it threw before it had one), the id of    *)
(* the item the payload was queued as (0: not queued), what the direct     *)
(* send of the payload did, and the processQueue invocation it awaits      *)
(* (0: none).                                                              *)
IdleCycle == [pc |-> "idle", online |-> FALSE, data |-> "none", payload |-> 0,
              sent |-> "none", drain |-> 0]

(* A resolved invocation is observed in the state right after it resolves *)
Settle(ds) == [d \in DOMAIN ds |-> IF ds[d].pc = "done" THEN IdleDrain ELSE ds[d]]

Init ==
    /\ queue = <<>>
    /\ store = NoRecord
    /\ drains = [d \in DrainIds |-> IdleDrain]
    /\ nextId = 1
    /\ clock = 1
    /\ restarts = 0
    /\ failed = [i \in Ids |-> 0]
    /\ raised = FALSE
    /\ overlapped = FALSE
    /\ faults = 0
    /\ tampered = FALSE
    /\ last = Did("init", MediumOk, NoSave)
    /\ cycles = [c \in CycleIds |-> IdleCycle]
    /\ included = [i \in Ids |-> 0]

----------------------------------------------------------------------------
(* The medium misbehaves in at most MaxFaults operations of a behaviour *)
MayMeet(m) == m = MediumOk \/ faults < MaxFaults

(* QueueManager.enqueue *)

NewItem(data, priority) ==
    [id |-> nextId, timestamp |-> clock, data |-> data, priority |-> priority,
     retries |-> 0]

Enqueue(data, priority, m) ==
    /\ nextId \in Ids
    /\ MayMeet(m)
    /\ LET r == SaveToStorage(Append(queue, NewItem(data, priority)), store, m)
       IN /\ queue' = r.queue
          /\ store' = r.store
          /\ raised' = (raised \/ r.threw # "none")
          /\ faults' = IF r.fails > 0 THEN faults + 1 ELSE faults
          /\ last' = Did("enqueue", m, r)
    /\ nextId' = nextId + 1
    /\ clock' = clock + 1
    /\ drains' = Settle(drains)
    /\ UNCHANGED <<restarts, failed, overlapped, tampered>>

(* QueueManager.processQueue, up to its first await *)

StartDrain(d) ==
    /\ drains[d].pc # "await"
    /\ \A e \in DrainIds : e < d => drains[e].pc = "await"
    /\ LET sorted == SortByPriority(queue)
       IN /\ queue' = sorted
          /\ drains' = [Settle(drains) EXCEPT ![d] =
                 [pc |-> IF sorted = <<>> THEN "done" ELSE "await",
                  snapshot |-> sorted,
                  idx |-> IF sorted = <<>> THEN 0 ELSE 1,
                  outcomes |-> <<>>,
                  startNext |-> nextId,
                  startFaults |-> faults]]
    /\ overlapped' = (overlapped \/ \E e \in DrainIds : e # d /\ drains[e].pc = "await")
    /\ last' = Did("start", MediumOk, NoSave)
    /\ UNCHANGED <<store, nextId, clock, restarts, failed, raised, faults, tampered>>

(* mutant: the failure is not counted on the item *)
Bump_forgets(q, id) == q

(* item.retries++ on the object every holder of the item shares *)
Bump(q, id) ==
    [i \in 1..Len(q) |-> IF q[i].id = id THEN [q[i] EXCEPT !.retries = @ + 1] ELSE q[i]]

(* The try block of the loop of processQueue for one item, after the await *)
Tried(q, st, m, item, ok) ==
    IF ok THEN RemoveFromQueue(q, st, m, item.id)
    ELSE SaveResult(q, st, <<>>, <<>>, 0, "none")

(* mutant: the catch block lets the delivery error go on up *)
Caught_rethrows(t, m, item) ==
    IF item.retries + 1 >= MAX_RETRIES
    THEN [AndThen(t, RemoveFromQueue(Bump(t.queue, item.id), t.store, m, item.id))
            EXCEPT !.threw = "other"]
    ELSE [t EXCEPT !.queue = Bump(@, item.id), !.threw = "other"]

(* The catch block, entered from the state the try block left *)
Caught(t, m, item) ==
    IF item.retries + 1 >= MAX_RETRIES
    THEN AndThen(t, RemoveFromQueue(Bump(t.queue, item.id), t.store, m, item.id))
    ELSE [t EXCEPT !.queue = Bump(@, item.id), !.threw = "none"]

(* mutant: the ceiling is reached one failure early *)
HandleOutcome_early(q, st, m, item, ok) ==
    IF ok /\ Tried(q, st, m, item, ok).threw = "none"
    THEN [res |-> Tried(q, st, m, item, ok), bumped |-> FALSE]
    ELSE [res |-> IF item.retries + 1 >= MAX_RETRIES - 1
                  THEN AndThen(Tried(q, st, m, item, ok),
                               RemoveFromQueue(Bump(Tried(q, st, m, item, ok).queue, item.id),
                                               Tried(q, st, m, item, ok).store, m, item.id))
                  ELSE [Tried(q, st, m, item, ok)
                          EXCEPT !.queue = Bump(@, item.id), !.threw = "none"],
          bumped |-> TRUE]

(* The body of the loop of processQueue for one item, after the await.    *)
(* A throw of removeFromQueue inside the try block lands in the catch      *)
(* block; a throw inside the catch block rejects the promise.              *)
HandleOutcome(q, st, m, item, ok) ==
    IF ok /\ Tried(q, st, m, item, ok).threw = "none"
    THEN [res |-> Tried(q, st, m, item, ok), bumped |-> FALSE]
    ELSE [res |-> Caught(Tried(q, st, m, item, ok), m, item), bumped |-> TRUE]

(* The transport settles the pending call of invocation d: the loop body   *)
(* runs for that item, and the call for the next item of the snapshot is   *)
(* made, or the invocation resolves.                                       *)
SendResolve(d, ok, m) ==
    /\ drains[d].pc = "await"
    /\ MayMeet(m)
    /\ LET dr == drains[d]
           item == dr.snapshot[dr.idx]
           h == HandleOutcome(queue, store, m, item, ok)
           r == h.res
           more == r.threw = "none" /\ dr.idx < Len(dr.snapshot)
           share(s) == IF h.bumped THEN Bump(s, item.id) ELSE s
       IN /\ queue' = r.queue
          /\ store' = r.store
          /\ raised' = (raised \/ r.threw # "none")
          /\ faults' = IF r.fails > 0 THEN faults + 1 ELSE faults
          /\ drains' = [e \in DrainIds |->
                 IF e = d
                 THEN [dr EXCEPT !.pc = IF more THEN "await" ELSE "done",
                                 !.idx = IF more THEN dr.idx + 1 ELSE dr.idx,
                                 !.snapshot = share(dr.snapshot),
                                 !.outcomes = Append(dr.outcomes, ok)]
                 ELSE IF drains[e].pc = "done" THEN IdleDrain
                 ELSE [drains[e] EXCEPT !.snapshot = share(drains[e].snapshot)]]
          /\ failed' = IF ok THEN failed ELSE [failed EXCEPT ![item.id] = @ + 1]
          /\ last' = Did("send", m, r)
    /\ UNCHANGED <<nextId, clock, restarts, overlapped, tampered>>

(* A page reload: every pending invocation is gone and a fresh QueueManager *)
(* is constructed from the store.                                           *)
Restart ==
    /\ restarts < MaxRestarts
    /\ LET l == LoadFromStorage(store)
       IN /\ queue' = l.queue
          /\ store' = l.store
          /\ last' = [Did("restart", MediumOk, [NoSave EXCEPT !.logs = l.logs])
                        EXCEPT !.before = [queue |-> queue, store |-> store]]
    /\ drains' = [d \in DrainIds |-> IdleDrain]
    /\ restarts' = restarts + 1
    /\ UNCHANGED <<nextId, clock, failed, raised, overlapped, faults, tampered>>

(* A page reload in which localStorage.getItem throws: the constructor     *)
(* goes through the catch block of loadFromStorage, whose removeItem works *)
(* or throws as well.  When it throws no QueueManager is constructed.      *)
RestartUnreadable(removeThrows) ==
    /\ restarts < MaxRestarts
    /\ MayMeet(MediumOther)
    /\ LET l == LoadCaught(store, removeThrows)
       IN /\ queue' = l.queue
          /\ store' = l.store
          /\ raised' = (raised \/ l.threw # "none")
          /\ last' = [Did("restart", MediumOther,
                          [NoSave EXCEPT !.logs = l.logs, !.fails = 1])
                        EXCEPT !.before = [queue |-> queue, store |-> store]]
    /\ drains' = [d \in DrainIds |-> IdleDrain]
    /\ restarts' = restarts + 1
    /\ faults' = faults + 1
    /\ UNCHANGED <<nextId, clock, failed, overlapped, tampered>>

(* The stored record is damaged from outside the program (another version  *)
(* of the format, a truncated write): it no longer parses, parses to       *)
(* something that is no array, or one field of one entry has a wrong type  *)
(* (for data: is missing).                                                 *)
StoredFields == {"id", "timestamp", "priority", "retries", "data"}

Damage(e, f) ==
    IF f = "data" THEN [e EXCEPT !.data = "undefined"] ELSE [e EXCEPT ![f] = WrongType]

Corrupt ==
    /\ ~tampered
    /\ \/ store' = CorruptRecord
       \/ store' = NotArrayRecord
       \/ /\ store.kind = "array"
          /\ \E i \in 1..Len(store.items), f \in StoredFields :
                store' = ArrayRecord([store.items EXCEPT ![i] = Damage(@, f)])
    /\ tampered' = TRUE
    /\ drains' = Settle(drains)
    /\ last' = Did("corrupt", MediumOk, NoSave)
    /\ UNCHANGED <<queue, nextId, clock, restarts, failed, raised, overlapped, faults>>

----------------------------------------------------------------------------
(* TDAGameAnalyticsSDK.sendData, the owner of the queue.  setInterval      *)
(* calls it on every tick, whatever the earlier invocations are doing.     *)

SettleCycles(cs) ==
    [c \in DOMAIN cs |-> IF cs[c].pc = "done" THEN IdleCycle ELSE cs[c]]

FreeCycle(c) ==
    /\ cycles[c].pc \in {"idle", "done"}
    /\ \A e \in CycleIds : e < c => cycles[e].pc \in {"raw", "drain"}

(* The catch block of sendData: console.error, and sendData resolves *)
SendCaught == [NoSave EXCEPT !.logs = <<"send_error">>]

(* sendData throws while it builds the payload, before it looks at         *)
(* navigator.onLine: a collector throws in prepareMetrics, a listener      *)
(* throws in events.emit, or, on a medium that denies access (m is         *)
(* MediumOther), localStorage.getItem throws in getCurrentSessionInfo.     *)
(* Control goes to the catch block; nothing is queued and nothing is sent. *)
SendDataUnbuilt(c, m) ==
    /\ FreeCycle(c)
    /\ m \in {MediumOk, MediumOther}
    /\ MayMeet(m)
    /\ cycles' = [SettleCycles(cycles) EXCEPT ![c] =
           [pc |-> "done", online |-> FALSE, data |-> "none", payload |-> 0,
            sent |-> "none", drain |-> 0]]
    /\ drains' = Settle(drains)
    /\ faults' = IF m = MediumOk THEN faults ELSE faults + 1
    /\ last' = Did("sendData", m,
                   [SendCaught EXCEPT !.fails = IF m = MediumOk THEN 0 ELSE 1])
    /\ UNCHANGED <<queue, store, nextId, clock, restarts, failed, raised,
                   overlapped, tampered>>

(* sendData with navigator.onLine false: the payload is queued with        *)
(* priority NORMAL and sendData returns.                                   *)
SendDataOffline(c, data, m) ==
    /\ FreeCycle(c)
    /\ Enqueue(data, NORMAL, m)
    /\ cycles' = [SettleCycles(cycles) EXCEPT ![c] =
           [pc |-> "done", online |-> FALSE, data |-> data, payload |-> nextId,
            sent |-> "none", drain |-> 0]]

(* sendData with navigator.onLine true, up to await this.sendRawData(data) *)
SendDataOnline(c, data) ==
    /\ FreeCycle(c)
    /\ cycles' = [SettleCycles(cycles) EXCEPT ![c] =
           [pc |-> "raw", online |-> TRUE, data |-> data, payload |-> 0,
            sent |-> "none", drain |-> 0]]
    /\ drains' = Settle(drains)
    /\ last' = Did("sendData", MediumOk, NoSave)
    /\ UNCHANGED <<queue, store, nextId, clock, restarts, failed, raised,
                   overlapped, faults, tampered>>

(* sendRawData(data) can be fulfilled: JSON.stringify(data), the body of   *)
(* the request, does not throw.                                            *)
Sendable(data) == data \notin Unserializable

(* The direct send of the payload is fulfilled: sendData goes on to        *)
(* await this.queueManager.processQueue().                                 *)
RawDelivered(c) ==
    /\ cycles[c].pc = "raw"
    /\ Sendable(cycles[c].data)
    /\ \E d \in DrainIds :
          /\ StartDrain(d)
          /\ cycles' = [SettleCycles(cycles) EXCEPT ![c] =
                 [@ EXCEPT !.pc = IF queue = <<>> THEN "done" ELSE "drain",
                           !.sent = "ok",
                           !.drain = d]]

(* The direct send of the payload is rejected (JSON.stringify threw on the *)
(* payload, network error, or a response that is not ok): control goes to  *)
(* the catch block of sendData, which logs.                                *)
RawFailed(c) ==
    /\ cycles[c].pc = "raw"
    /\ cycles' = [SettleCycles(cycles) EXCEPT ![c] =
           [@ EXCEPT !.pc = "done", !.sent = "failed"]]
    /\ drains' = Settle(drains)
    /\ last' = Did("sendData", MediumOk, SendCaught)
    /\ UNCHANGED <<queue, store, nextId, clock, restarts, failed, raised,
                   overlapped, faults, tampered>>

(* The transport of the SDK, sendRawData, settles the pending call of      *)
(* invocation d: it is rejected whenever the payload of the item is one    *)
(* JSON.stringify throws on.                                               *)
SendRawResolve(d, ok, m) ==
    /\ drains[d].pc = "await"
    /\ ok => Sendable(drains[d].snapshot[drains[d].idx].data)
    /\ SendResolve(d, ok, m)

(* A step of the processQueue invocation a sendData awaits; sendData       *)
(* completes when that invocation settles.                                 *)
SendDataAwaitQueue(d, ok, m) ==
    /\ SendRawResolve(d, ok, m)
    /\ cycles' = [c \in CycleIds |->
           IF cycles[c].pc = "drain" /\ cycles[c].drain = d
           THEN [cycles[c] EXCEPT !.pc = IF drains'[d].pc = "done" THEN "done" ELSE "drain"]
           ELSE IF cycles[c].pc = "done" THEN IdleCycle ELSE cycles[c]]

----------------------------------------------------------------------------
(* The producers of TDAGameAnalyticsSDK.  A payload is modelled by its     *)
(* type field and by whether JSON.stringify takes it (ErrorPayloads,       *)
(* EventPayloads); the priority the producers write is a property of the   *)
(* payload object, and the priority parameter of enqueueData is left out   *)
(* by every caller.                                                        *)

(* An argument the caller did not pass *)
Absent == 0

(* private enqueueData(data, priority = EventPriority.NORMAL) *)
DefaultPriority(priority) == IF priority = Absent THEN NORMAL ELSE priority

EnqueueData(data, priority, m) == Enqueue(data, DefaultPriority(priority), m)

(* trackCustomEvent(eventName, payload):                                   *)
(* enqueueData({type: 'customEvent', ..., payload, priority: NORMAL})      *)
TrackCustomEvent(data, m) ==
    /\ data \in EventPayloads
    /\ EnqueueData(data, Absent, m)

(* enqueueErrorData(error), also reached from ErrorTracker.track and the   *)
(* global error handlers:                                                  *)
(* enqueueData({type: 'error', ...error, priority: CRITICAL})              *)
EnqueueErrorData(data, m) ==
    /\ data \in ErrorPayloads
    /\ EnqueueData(data, Absent, m)

(* trackError(report): with errorTracking configured the report goes to    *)
(* errorTracker.track, which calls enqueueErrorData, and then in every     *)
(* case to enqueueData.  Both enqueues run in the one call, on payloads    *)
(* that spread the same report.  The configuration is an input of the      *)
(* call.                                                                   *)
TrackError(data, errorTracking, m) ==
    /\ data \in ErrorPayloads
    /\ nextId + 1 \in Ids
    /\ MayMeet(m)
    /\ LET first == [id |-> nextId, timestamp |-> clock, data |-> data,
                     priority |-> DefaultPriority(Absent), retries |-> 0]
           second == [id |-> IF errorTracking THEN nextId + 1 ELSE nextId,
                      timestamp |-> clock, data |-> data,
                      priority |-> DefaultPriority(Absent), retries |-> 0]
           r1 == IF errorTracking
                 THEN SaveToStorage(Append(queue, first), store, m)
                 ELSE SaveResult(queue, store, <<>>, <<>>, 0, "none")
           r == AndThen(r1, SaveToStorage(Append(r1.queue, second), r1.store, m))
       IN /\ queue' = r.queue
          /\ store' = r.store
          /\ raised' = (raised \/ r.threw # "none")
          /\ faults' = IF r.fails > 0 THEN faults + 1 ELSE faults
          /\ last' = Did("trackError", m, r)
    /\ nextId' = IF errorTracking THEN nextId + 2 ELSE nextId + 1
    /\ clock' = clock + 1
    /\ drains' = Settle(drains)
    /\ UNCHANGED <<restarts, failed, overlapped, tampered>>

----------------------------------------------------------------------------
(* Specifications *)

(* The documented duty of the caller: no processQueue while one is pending *)
NoDrainPending == \A d \in DrainIds : drains[d].pc # "await"

(* One session of a caller that honours that duty, on a medium that may    *)
(* fail.                                                                    *)
Next ==
    \/ \E p \in Priorities, m \in Media :
          nextId <= MaxEnq /\ Enqueue("plain", p, m) /\ UNCHANGED <<cycles, included>>
    \/ \E d \in DrainIds : NoDrainPending /\ StartDrain(d) /\ UNCHANGED <<cycles, included>>
    \/ \E d \in DrainIds, ok \in BOOLEAN, m \in Media :
          SendResolve(d, ok, m) /\ UNCHANGED <<cycles, included>>

Spec == Init /\ [][Next]_vars

(* The same caller across page reloads *)
NextDurable ==
    \/ \E p \in Priorities, m \in Media :
          nextId <= MaxEnqDurable /\ Enqueue("plain", p, m) /\ UNCHANGED <<cycles, included>>
    \/ \E d \in DrainIds : NoDrainPending /\ StartDrain(d) /\ UNCHANGED <<cycles, included>>
    \/ \E d \in DrainIds, ok \in BOOLEAN, m \in Media :
          SendResolve(d, ok, m) /\ UNCHANGED <<cycles, included>>
    \/ Restart /\ UNCHANGED <<cycles, included>>

SpecDurable == Init /\ [][NextDurable]_vars

(* Producers, page reloads and damage to the stored record; no delivery *)
NextPersist ==
    \/ \E data \in DataValues, p \in {CRITICAL, NORMAL}, m \in Media :
          nextId <= MaxEnq /\ Enqueue(data, p, m) /\ UNCHANGED <<cycles, included>>
    \/ Restart /\ UNCHANGED <<cycles, included>>
    \/ Corrupt /\ UNCHANGED <<cycles, included>>

SpecPersist == Init /\ [][NextPersist]_vars

(* The same, with page reloads in which the record cannot be read *)
NextLoad ==
    \/ \E data \in DataValues, p \in {CRITICAL, NORMAL}, m \in Media :
          nextId <= MaxEnq /\ Enqueue(data, p, m) /\ UNCHANGED <<cycles, included>>
    \/ Restart /\ UNCHANGED <<cycles, included>>
    \/ \E removeThrows \in BOOLEAN :
          RestartUnreadable(removeThrows) /\ UNCHANGED <<cycles, included>>
    \/ Corrupt /\ UNCHANGED <<cycles, included>>

SpecLoad == Init /\ [][NextLoad]_vars

(* One session of a caller that honours its duty, with the drains that    *)
(* held each item counted.                                                 *)
CountDrain ==
    included' = [i \in Ids |-> IF i \in IdsOf(queue) THEN included[i] + 1
                                ELSE included[i]]

NextCounted ==
    \/ \E p \in Priorities, m \in Media :
          nextId <= MaxEnq /\ Enqueue("plain", p, m) /\ UNCHANGED <<cycles, included>>
    \/ \E d \in DrainIds :
          NoDrainPending /\ StartDrain(d) /\ CountDrain /\ UNCHANGED cycles
    \/ \E d \in DrainIds, ok \in BOOLEAN, m \in Media :
          SendResolve(d, ok, m) /\ UNCHANGED <<cycles, included>>

SpecCounted == Init /\ [][NextCounted]_vars

(* The producers of the SDK and a caller of processQueue that honours its *)
(* duty; the medium takes every write.                                     *)
NextTrack ==
    \/ \E data \in EventPayloads :
          nextId <= MaxEnqTrack /\ TrackCustomEvent(data, MediumOk)
             /\ UNCHANGED <<cycles, included>>
    \/ \E data \in ErrorPayloads :
          nextId <= MaxEnqTrack /\ EnqueueErrorData(data, MediumOk)
             /\ UNCHANGED <<cycles, included>>
    \/ \E data \in ErrorPayloads, errorTracking \in BOOLEAN :
          nextId < MaxEnqTrack /\ TrackError(data, errorTracking, MediumOk)
             /\ UNCHANGED <<cycles, included>>
    \/ \E d \in DrainIds :
          NoDrainPending /\ StartDrain(d) /\ UNCHANGED <<cycles, included>>
    \/ \E d \in DrainIds, ok \in BOOLEAN :
          SendRawResolve(d, ok, MediumOk) /\ UNCHANGED <<cycles, included>>

SpecTrack == Init /\ [][NextTrack]_vars

(* The overflow handling on its own: a queue of k items, enqueued and      *)
(* persisted while the medium took every write, and one more enqueue on a  *)
(* medium that has filled up.                                              *)
Filled(k) ==
    [i \in 1..k |->
        [id |-> i, timestamp |-> i, data |-> "plain", priority |-> NORMAL, retries |-> 0]]

InitOverflow ==
    /\ \E k \in 0..MaxK :
          /\ queue = Filled(k)
          /\ store = IF k = 0 THEN NoRecord ELSE ArrayRecord(Serialize(Filled(k)))
          /\ nextId = k + 1
          /\ clock = k + 1
    /\ drains = [d \in DrainIds |-> IdleDrain]
    /\ restarts = 0
    /\ failed = [i \in Ids |-> 0]
    /\ raised = FALSE
    /\ overlapped = FALSE
    /\ faults = 0
    /\ tampered = FALSE
    /\ last = Did("init", MediumOk, NoSave)
    /\ cycles = [c \in CycleIds |-> IdleCycle]
    /\ included = [i \in Ids |-> 0]

NextOverflow ==
    \E p \in Priorities, c \in -1..MaxK :
        last.op = "init" /\ Enqueue("plain", p, MediumQuota(c)) /\ UNCHANGED <<cycles, included>>

SpecOverflow == InitOverflow /\ [][NextOverflow]_vars

(* The SDK as the owning scheduler: the interval timer calls sendData,     *)
(* online or offline, at any moment; the medium takes every write, and     *)
(* access to it may be denied when sendData reads the session.             *)
NextSdk ==
    \/ \E c \in CycleIds, m \in {MediumOk, MediumOther} :
          SendDataUnbuilt(c, m) /\ UNCHANGED included
    \/ \E c \in CycleIds, data \in SendPayloads :
          nextId <= MaxEnqSdk /\ SendDataOffline(c, data, MediumOk) /\ UNCHANGED included
    \/ \E c \in CycleIds, data \in SendPayloads :
          SendDataOnline(c, data) /\ UNCHANGED included
    \/ \E c \in CycleIds : RawDelivered(c) /\ UNCHANGED included
    \/ \E c \in CycleIds : RawFailed(c) /\ UNCHANGED included
    \/ \E d \in DrainIds, ok \in BOOLEAN :
          SendDataAwaitQueue(d, ok, MediumOk) /\ UNCHANGED included

SpecSdk == Init /\ [][NextSdk]_vars

----------------------------------------------------------------------------
(* Vocabulary of the claims *)

Started(d) == drains[d].pc \in {"await", "done"}

(* The items invocation d has passed to the transport so far, in call order *)
Calls(d) == SubSeq(drains[d].snapshot, 1, drains[d].idx)

(* The entries a reader of the store finds *)
Persisted(st) == IF st.kind = "array" THEN st.items ELSE <<>>

AllOk(d) == \A i \in 1..Len(drains[d].outcomes) : drains[d].outcomes[i]

(* Nothing but the invocation itself touched the queue since it started,   *)
(* and every write it made succeeded.                                      *)
Undisturbed(d) ==
    /\ nextId = drains[d].startNext
    /\ faults = drains[d].startFaults

----------------------------------------------------------------------------
(* C1: within one processQueue invocation the transport calls go in        *)
(* ascending priority order, and two items of the same priority are called *)
(* in the order they were enqueued (ids are handed out in enqueue order);  *)
(* right after the invocation starts its snapshot is the whole live queue, *)
(* so the calls are made on the queued items.                              *)
C1_PriorityOrder ==
    \A d \in DrainIds :
        /\ \A i, j \in 1..Len(Calls(d)) :
              i < j =>
                /\ Calls(d)[i].priority <= Calls(d)[j].priority
                /\ Calls(d)[i].priority = Calls(d)[j].priority
                     => Calls(d)[i].id < Calls(d)[j].id
        /\ (Started(d) /\ last.op = "start") =>
              /\ drains[d].snapshot = queue
              /\ drains[d].idx = IF queue = <<>> THEN 0 ELSE 1

(* A finished drain of three items in which the item enqueued last went    *)
(* first and the two others tied.                                          *)
C1_Witness ==
    \E d \in DrainIds :
        /\ drains[d].pc = "done"
        /\ Len(Calls(d)) = 3
        /\ Calls(d)[1].id = 3
        /\ Calls(d)[2].priority = Calls(d)[3].priority

----------------------------------------------------------------------------
(* C3: when every storage write succeeds, the persisted record equals the  *)
(* in-memory queue, item for item and retries included, once processQueue  *)
(* has resolved.                                                           *)
C3_PersistedAfterDrain ==
    \A d \in DrainIds :
        (drains[d].pc = "done" /\ faults = 0) =>
            Persisted(store) = Serialize(queue)

----------------------------------------------------------------------------
(* C5: no exception crosses the public boundary: enqueue returns normally  *)
(* and the promise of processQueue resolves, whatever the transport and    *)
(* the medium do.                                                          *)
C5_NeverRaises == raised = FALSE

(* processQueue has resolved, its last step having met a failing write *)
C5_Witness ==
    \E d \in DrainIds :
        /\ drains[d].pc = "done"
        /\ last.op = "send"
        /\ "save_failed" \in {last.logs[i] : i \in 1..Len(last.logs)}
        /\ ~raised

----------------------------------------------------------------------------
(* Vocabulary of C6: the late items of invocation d are those enqueued     *)
(* after it started; the ids of a queue in queue order.                    *)
Late(d) == {i \in 1..Len(queue) : queue[i].id >= drains[d].startNext}

IdSeq(q) == [i \in 1..Len(q) |-> q[i].id]

(* The snapshot of an invocation holds only items enqueued before it       *)
(* started, each once, and the invocation goes through it position by      *)
(* position.                                                               *)
C6_Snapshot ==
    \A d \in DrainIds :
        Started(d) =>
            /\ \A i \in 1..Len(drains[d].snapshot) :
                  drains[d].snapshot[i].id < drains[d].startNext
            /\ \A i, j \in 1..Len(drains[d].snapshot) :
                  i # j => drains[d].snapshot[i].id # drains[d].snapshot[j].id
            /\ Len(drains[d].outcomes) =
                  IF drains[d].pc = "await" THEN drains[d].idx - 1
                  ELSE Len(drains[d].snapshot)

(* An enqueue while an invocation is pending puts the new item behind      *)
(* every queued item: the queue after it is the old queue with the new     *)
(* item at the end, less the prefix the enqueue's own save may have cut.   *)
C6_Appended ==
    \A d \in DrainIds :
        (drains[d].pc = "await" /\ last'.op = "enqueue") =>
            LET full == Append(IdSeq(queue), nextId)
            IN \E k \in 0..Len(full) : IdSeq(queue') = Slice(full, k)

(* The next invocation takes the whole live queue, late items included,    *)
(* each once.                                                              *)
C6_NextSnapshot ==
    \A d \in DrainIds :
        (last'.op = "start" /\ drains[d].pc # "await" /\ drains'[d].pc # "idle") =>
            /\ IdsOf(drains'[d].snapshot) = IdsOf(queue)
            /\ Len(drains'[d].snapshot) = Len(queue)

(* C6, as claimed: an item enqueued while processQueue is suspended on a   *)
(* transport call is appended to the live queue, is not in the snapshot of *)
(* that invocation (so is not attempted by it), stays in the live queue    *)
(* through every step in which the drain removes an item, and is in the    *)
(* snapshot of the next invocation, once; and the invocation in flight     *)
(* goes through its snapshot position by position, each item once.         *)
C6_StepAsClaimed ==
    /\ C6_Appended
    /\ C6_NextSnapshot
    /\ \A d \in DrainIds :
          (drains[d].pc = "await" /\ last'.op = "send") =>
             \A i \in Late(d) : queue[i].id \in IdsOf(queue')

C6_LateItemNeverLost == []C6_Snapshot /\ [][C6_StepAsClaimed]_vars

(* C6, amended: as claimed, but a late item stays in the live queue        *)
(* through a step of the drain only if the save of that step made no cut:  *)
(* when the save that follows the drain's removal of another item fails on *)
(* quota, the overflow eviction can take the late item, which is then      *)
(* never attempted.                                                        *)
C6_Step ==
    /\ C6_Appended
    /\ C6_NextSnapshot
    /\ \A d \in DrainIds :
          (drains[d].pc = "await" /\ last'.op = "send" /\ last'.cuts = <<>>) =>
             \A i \in Late(d) : queue[i].id \in IdsOf(queue')

C6_EnqueueDuringDrain == []C6_Snapshot /\ [][C6_Step]_vars

(* The drain has removed an item, with no cut, after another was enqueued  *)
(* behind its back, and the late item is still queued.                     *)
C6_Witness ==
    \E d \in DrainIds :
        /\ drains[d].pc = "await"
        /\ drains[d].idx = 2
        /\ drains[d].outcomes = <<TRUE>>
        /\ last.op = "send"
        /\ last.cuts = <<>>
        /\ Late(d) # {}

----------------------------------------------------------------------------
(* C7: a drain of a non-empty queue in which the transport succeeds for    *)
(* every item, with no enqueue during it and every write succeeding, ends  *)
(* with an empty queue and the empty array as the persisted record; for    *)
(* A(NORMAL), B(CRITICAL), C(HIGH) enqueued in that order the calls are    *)
(* B, C, A.                                                                *)
IsABC(s) ==
    /\ Len(s) = 3
    /\ \E a, b, c \in IdsOf(s) :
          /\ a < b /\ b < c
          /\ \A i \in 1..3 :
                /\ s[i].id = a => s[i].priority = NORMAL
                /\ s[i].id = b => s[i].priority = CRITICAL
                /\ s[i].id = c => s[i].priority = HIGH

C7_AllDelivered ==
    \A d \in DrainIds :
        (/\ drains[d].pc = "done"
         /\ drains[d].snapshot # <<>>
         /\ AllOk(d)
         /\ Undisturbed(d)) =>
            /\ queue = <<>>
            /\ store = ArrayRecord(<<>>)
            /\ IsABC(drains[d].snapshot) =>
                  /\ Calls(d)[1].priority = CRITICAL
                  /\ Calls(d)[2].priority = HIGH
                  /\ Calls(d)[3].priority = NORMAL

C7_Witness ==
    \E d \in DrainIds :
        /\ drains[d].pc = "done"
        /\ AllOk(d)
        /\ Undisturbed(d)
        /\ IsABC(drains[d].snapshot)
        /\ Len(Calls(d)) = 3
        /\ queue = <<>>
        /\ store = ArrayRecord(<<>>)

----------------------------------------------------------------------------
(* C8: A and B both NORMAL, every write succeeding.  The drain in which A  *)
(* fails for the first time and B succeeds leaves A queued with retries 1  *)
(* and B out of the queue; the drain in which A fails for the second time  *)
(* leaves A queued with retries 2; the drain in which the third attempt of *)
(* A succeeds removes A, whose retries are still 2, below the ceiling.     *)
C8_PartialFailure ==
    \A d \in DrainIds :
        (drains[d].pc = "done" /\ faults = 0 /\ nextId = drains[d].startNext) =>
            LET s == drains[d].snapshot
                o == drains[d].outcomes
            IN /\ (/\ Len(s) = 2
                   /\ s[1].priority = NORMAL /\ s[2].priority = NORMAL
                   /\ failed[s[1].id] = 1
                   /\ o = <<FALSE, TRUE>>) =>
                      /\ Len(queue) = 1
                      /\ queue[1].id = s[1].id
                      /\ queue[1].retries = 1
               /\ (Len(s) = 1 /\ failed[s[1].id] = 2 /\ o = <<FALSE>>) =>
                      /\ Len(queue) = 1
                      /\ queue[1].id = s[1].id
                      /\ queue[1].retries = 2
               /\ (Len(s) = 1 /\ failed[s[1].id] = 2 /\ o = <<TRUE>>) =>
                      /\ queue = <<>>
                      /\ s[1].retries = 2
                      /\ s[1].retries < MAX_RETRIES

(* The third drain of the scenario has resolved: A went out on its third   *)
(* attempt, B on its first.                                                *)
C8_Witness ==
    \E d \in DrainIds :
        /\ drains[d].pc = "done"
        /\ faults = 0
        /\ nextId = 3
        /\ drains[d].outcomes = <<TRUE>>
        /\ Len(drains[d].snapshot) = 1
        /\ drains[d].snapshot[1].id = 1
        /\ drains[d].snapshot[1].priority = NORMAL
        /\ failed[1] = 2
        /\ failed[2] = 0
        /\ queue = <<>>

----------------------------------------------------------------------------
(* C2: with non-overlapping drains and every write succeeding, an item     *)
(* whose every delivery attempt fails is still queued after its 1st and    *)
(* its 2nd failed attempt, is out of the queue right after its 3rd, and is *)
(* never attempted a 4th time.  (failed counts the failed attempts of an   *)
(* item over its whole life; with every write succeeding an item that was  *)
(* delivered once is gone for good, so an item that is attempted has only  *)
(* failures behind it.)                                                    *)
C2_RetryCeiling ==
    \A d \in DrainIds :
        (Started(d) /\ faults = 0 /\ ~overlapped) =>
            /\ \A i \in 1..Len(drains[d].outcomes) :
                  ~drains[d].outcomes[i] =>
                      LET id == drains[d].snapshot[i].id
                      IN /\ failed[id] <= MAX_RETRIES
                         /\ failed[id] < MAX_RETRIES => id \in IdsOf(queue)
                         /\ failed[id] = MAX_RETRIES => id \notin IdsOf(queue)
            /\ drains[d].pc = "await" =>
                  failed[drains[d].snapshot[drains[d].idx].id] < MAX_RETRIES

----------------------------------------------------------------------------
(* C4, as claimed: after enqueueing N items with data present into an      *)
(* empty queue, every write succeeding, a fresh QueueManager constructed   *)
(* from the same store holds exactly the N items, with the same id, data   *)
(* and priority and with retries 0.                                        *)
FreshFromEnqueues ==
    /\ last.op = "restart"
    /\ restarts = 1
    /\ faults = 0
    /\ ~tampered
    /\ \A i \in 1..Len(last.before.queue) : last.before.queue[i].data # "undefined"

SameItems(q, b) ==
    /\ Len(q) = Len(b)
    /\ \A i \in 1..Len(b) :
          /\ q[i].id = b[i].id
          /\ q[i].data = b[i].data
          /\ q[i].priority = b[i].priority
          /\ q[i].retries = 0

C4_RoundTrip == FreshFromEnqueues => SameItems(queue, last.before.queue)

(* C4, amended: the same, for payloads that JSON represents as they are.   *)
JsonSafe(d) == d = "plain" \/ d = "flattened"

C4_RoundTripJson ==
    (/\ FreshFromEnqueues
     /\ \A i \in 1..Len(last.before.queue) : JsonSafe(last.before.queue[i].data)) =>
        SameItems(queue, last.before.queue)

C4_Witness ==
    /\ FreshFromEnqueues
    /\ Len(last.before.queue) = 3
    /\ \A i \in 1..3 : JsonSafe(last.before.queue[i].data)
    /\ Len(queue) = 3
    /\ queue[1].priority # queue[2].priority

----------------------------------------------------------------------------
(* C9: when the persisted record fails structural validation               *)
(* (one entry has a priority of the wrong type, say), constructing the     *)
(* QueueManager yields an empty queue, removes the stored record and       *)
(* raises no error.                                                        *)
WellFormed(e) ==
    /\ e.id >= 0
    /\ e.timestamp >= 0
    /\ e.priority >= 0
    /\ e.retries >= 0
    /\ e.data \in {"plain", "flattened"}

FailsValidation(st) ==
    \/ st.kind = "notarray"
    \/ st.kind = "array" /\ \E i \in 1..Len(st.items) : ~WellFormed(st.items[i])

C9_CorruptStoreReset ==
    (last.op = "restart" /\ FailsValidation(last.before.store)) =>
        /\ queue = <<>>
        /\ store = NoRecord
        /\ ~raised

----------------------------------------------------------------------------
(* C10: one overflow handling makes at most 5 cuts, the k-th of them       *)
(* removing 20k% (rounded up) of the length the queue has at that moment,  *)
(* and ends with a save that succeeded or with the failure reported.       *)
RECURSIVE Sum(_)
Sum(s) == IF s = <<>> THEN 0 ELSE s[1] + Sum(Tail(s))

(* the length of the queue before the k-th cut of the last operation *)
LenBeforeCut(k) == Len(queue) + Sum(SubSeq(last.cuts, k, Len(last.cuts)))

PercentOf(n, k) == (n * 20 * k + 99) \div 100

C10_FiveCuts ==
    last.cuts # <<>> =>
        /\ Len(last.cuts) <= MAX_ATTEMPTS
        /\ \A k \in 1..Len(last.cuts) : last.cuts[k] = PercentOf(LenBeforeCut(k), k)
        /\ \/ store = ArrayRecord(Serialize(queue))
           \/ "overflow_unresolved" \in {last.logs[i] : i \in 1..Len(last.logs)}

----------------------------------------------------------------------------
(* C11: eviction is triggered only by a quota-exceeded write failure: an   *)
(* operation makes cuts only when its write met a quota error, and when a  *)
(* save fails for another reason nothing is cut, the stored record is left *)
(* as it was, and the in-memory queue is what the operation handed to the  *)
(* save: the old queue with the new item appended (enqueue), or the old    *)
(* queue without the item just attempted (processQueue).                   *)
C11_Step ==
    /\ last'.cuts # <<>> => last'.medium.mode = "quota"
    /\ last'.medium = MediumOther =>
          /\ last'.cuts = <<>>
          /\ store' = store
          /\ last'.op = "enqueue" =>
                /\ Len(queue') = Len(queue) + 1
                /\ Front(queue') = queue
                /\ queue'[Len(queue')].id = nextId
          /\ last'.op = "send" =>
                \E d \in DrainIds :
                    /\ drains[d].pc = "await"
                    /\ queue' = FilterOut(queue, drains[d].snapshot[drains[d].idx].id)

C11_EvictionOnlyOnQuota == [][C11_Step]_vars

(* A delivered item was removed from the queue, the save of the removal    *)
(* failed with an error that is no quota error, and the record still holds *)
(* the delivered item next to the ones that stay queued.                   *)
C11_Witness ==
    /\ last.op = "send"
    /\ last.medium = MediumOther
    /\ last.cuts = <<>>
    /\ Len(queue) >= 1
    /\ Len(Persisted(store)) = Len(queue) + 1

----------------------------------------------------------------------------
(* C12: the SDK never has two processQueue invocations pending at once: no *)
(* invocation is started while an earlier one is pending.                  *)
C12_OneDrainAtATime ==
    /\ Cardinality({d \in DrainIds : drains[d].pc = "await"}) <= 1
    /\ ~overlapped

----------------------------------------------------------------------------
(* C13: when a sendData that built a payload the transport can carry       *)
(* completes, the payload has been delivered by the transport or is in the *)
(* queue, offline as well as after a failed direct send; and a sendData    *)
(* whose direct send failed has still run processQueue on the queued       *)
(* items.                                                                  *)
C13_PayloadSurvives ==
    \A c \in CycleIds :
        (cycles[c].pc = "done" /\ cycles[c].data \in SendPayloads
                               /\ Sendable(cycles[c].data)) =>
            /\ \/ cycles[c].sent = "ok"
               \/ cycles[c].payload \in IdsOf(queue)
            /\ cycles[c].sent = "failed" => cycles[c].drain # 0

----------------------------------------------------------------------------
(* C14: in every step (enqueue, drain step, eviction, reload of the queue  *)
(* from the store) the retries of an item that stays queued do not go      *)
(* down, and change only by +1 in a step that is a failed delivery attempt *)
(* of that item; a newly enqueued item has retries 0.                      *)
RetriesOf(q, id) == q[CHOOSE i \in 1..Len(q) : q[i].id = id].retries

C14_Step ==
    /\ \A id \in IdsOf(queue) \cap IdsOf(queue') :
          /\ RetriesOf(queue', id) >= RetriesOf(queue, id)
          /\ RetriesOf(queue', id) # RetriesOf(queue, id) =>
                /\ RetriesOf(queue', id) = RetriesOf(queue, id) + 1
                /\ failed'[id] = failed[id] + 1
    /\ (nextId' # nextId /\ nextId \in IdsOf(queue')) => RetriesOf(queue', nextId) = 0

C14_RetriesMonotonic == [][C14_Step]_vars

----------------------------------------------------------------------------
(* C15: overflow eviction removes the earliest-enqueued items first:       *)
(* whenever an operation evicts an item, every item still held afterwards  *)
(* was enqueued after it (ids are handed out in enqueue order).  The item  *)
(* a drain step removes because it was delivered or hit the ceiling is not *)
(* an eviction.                                                            *)
Attempted ==
    {drains[d].snapshot[drains[d].idx].id :
        d \in {e \in DrainIds : /\ drains[e].pc = "await"
                                /\ Len(drains'[e].outcomes) > Len(drains[e].outcomes)}}

Evicted ==
    ((IdsOf(queue) \cup (IF nextId' # nextId THEN {nextId} ELSE {}))
        \ IdsOf(queue')) \ Attempted

C15_Step ==
    last'.cuts # <<>> =>
        \A r \in Evicted : \A k \in IdsOf(queue') : k > r

C15_OldestFirst == [][C15_Step]_vars

----------------------------------------------------------------------------
(* C16: no short-circuiting.  An invocation of processQueue passes the     *)
(* items of its snapshot to the transport one by one, each exactly once:   *)
(* the items of the snapshot have different ids; the call pending is for   *)
(* an item of the snapshot and the outcome of every call before it is in,  *)
(* whatever it was;                                                        *)
(* and the invocation resolves only after the call for the last item of    *)
(* the snapshot.                                                           *)
C16_NoShortCircuit ==
    \A d \in DrainIds :
        Started(d) =>
            /\ \A i, j \in 1..Len(drains[d].snapshot) :
                  i < j => drains[d].snapshot[i].id # drains[d].snapshot[j].id
            /\ drains[d].pc = "await" =>
                  /\ drains[d].idx \in 1..Len(drains[d].snapshot)
                  /\ Len(drains[d].outcomes) = drains[d].idx - 1
            /\ drains[d].pc = "done" =>
                  /\ drains[d].idx = Len(drains[d].snapshot)
                  /\ Len(drains[d].outcomes) = Len(drains[d].snapshot)

(* A resolved drain of three items: the first failed, the second hit the   *)
(* ceiling and was removed, the third was still called, and delivered.     *)
C16_Witness ==
    \E d \in DrainIds :
        /\ drains[d].pc = "done"
        /\ drains[d].outcomes = <<FALSE, FALSE, TRUE>>
        /\ Len(Calls(d)) = 3
        /\ failed[Calls(d)[2].id] = MAX_RETRIES
        /\ Calls(d)[2].id \notin IdsOf(queue)
        /\ Calls(d)[1].id \in IdsOf(queue)

----------------------------------------------------------------------------
(* C17: the first successful save ends the overflow handling.  Every cut   *)
(* of a handling was made after a save that failed (the queue as it was    *)
(* before the cut did not fit the medium), so nothing is removed after a   *)
(* save that succeeded; and when the queue the handling leaves fits the    *)
(* medium, the persisted record equals that queue.                         *)
C17_FirstSuccessStops ==
    last.cuts # <<>> =>
        /\ \A k \in 1..Len(last.cuts) : LenBeforeCut(k) > last.medium.cap
        /\ Len(queue) <= last.medium.cap => store = ArrayRecord(Serialize(queue))

(* Eleven items on a medium that holds five: the saves after the first and *)
(* the second cut failed, the save after the third succeeded.              *)
C17_Witness ==
    /\ last.op = "enqueue"
    /\ last.medium = MediumQuota(5)
    /\ Len(last.cuts) = 3
    /\ Len(queue) = 4
    /\ store = ArrayRecord(Serialize(queue))

----------------------------------------------------------------------------
(* C18: when every save fails with a quota error, the save of the empty    *)
(* queue included, the operation returns normally, the unresolved overflow *)
(* is logged, the stored record is what it was before the operation, and   *)
(* the in-memory queue is left as the cuts reduced it: empty.              *)
C18_Step ==
    last'.medium = MediumQuota(-1) =>
        /\ ~raised'
        /\ "overflow_unresolved" \in {last'.logs[i] : i \in 1..Len(last'.logs)}
        /\ "save_failed" \in {last'.logs[i] : i \in 1..Len(last'.logs)}
        /\ store' = store
        /\ Len(queue') = Len(queue) + 1 - Sum(last'.cuts)
        /\ queue' = <<>>

C18_ExhaustedOverflow == [][C18_Step]_vars

(* Ten items persisted, an eleventh enqueued on a medium that refuses every *)
(* write: the queue was cut down to nothing and the record of ten is still  *)
(* in the store.                                                            *)
C18_Witness ==
    /\ last.op = "enqueue"
    /\ last.medium = MediumQuota(-1)
    /\ Sum(last.cuts) = 11
    /\ Len(last.cuts) > MAX_ATTEMPTS
    /\ queue = <<>>
    /\ store = ArrayRecord(Serialize(Filled(10)))
    /\ ~raised

----------------------------------------------------------------------------
(* C19: when the stored record parses to an array, the queue of the        *)
(* QueueManager constructed from it is exactly the stored entries with a   *)
(* string id, a numeric timestamp, priority and retries, and data present, *)
(* in stored order: the other entries are dropped, the valid ones kept.    *)
C19_LoadsValidEntries ==
    (last.op = "restart" /\ last.before.store.kind = "array") =>
        /\ queue = SelectSeq(last.before.store.items, WellFormed)
        /\ \A i \in 1..Len(queue) : WellFormed(queue[i])

(* A reload from a record of three entries, the middle one without data:   *)
(* the first and the third are loaded, in that order.                      *)
C19_Witness ==
    /\ last.op = "restart"
    /\ last.before.store.kind = "array"
    /\ Len(last.before.store.items) = 3
    /\ last.before.store.items[2].data = "undefined"
    /\ Len(queue) = 2
    /\ queue[1] = last.before.store.items[1]
    /\ queue[2] = last.before.store.items[3]

----------------------------------------------------------------------------
(* C20: when reading the stored record throws or the record does not       *)
(* parse, the QueueManager is constructed without raising, its queue is    *)
(* empty, the failure is logged and the stored record is deleted.          *)
C20_UnreadableStoreReset ==
    (/\ last.op = "restart"
     /\ \/ last.before.store.kind = "corrupt"
        \/ last.medium = MediumOther) =>
        /\ queue = <<>>
        /\ store = NoRecord
        /\ last.logs = <<"load_failed">>
        /\ ~raised

----------------------------------------------------------------------------
(* C21: with non-overlapping drains, whenever processQueue makes a         *)
(* transport call, the item of the call is in the live queue at that       *)
(* moment: an item that overflow eviction removed during the drain is not  *)
(* passed to the transport afterwards by that drain.                       *)
C21_Step ==
    \A d \in DrainIds :
        (/\ drains'[d].pc = "await"
         /\ drains[d].pc # "await" \/ drains'[d].idx # drains[d].idx
         /\ ~overlapped') =>
            drains'[d].snapshot[drains'[d].idx].id \in IdsOf(queue')

C21_CallsOnlyQueued == [][C21_Step]_vars

----------------------------------------------------------------------------
(* C22: bounded response.  Within one session of non-overlapping drains,   *)
(* an item that is still queued has been in the snapshot of at most three  *)
(* drains, and if of three, the third is still running and has not yet     *)
(* got the outcome of its call for the item: by the end of the third drain *)
(* that includes it the item has left the queue, whatever the transport    *)
(* did.                                                                    *)
C22_GoneAfterThreeDrains ==
    \A id \in IdsOf(queue) :
        /\ included[id] <= MAX_RETRIES
        /\ included[id] = MAX_RETRIES =>
              \E d \in DrainIds :
                  /\ drains[d].pc = "await"
                  /\ \E i \in drains[d].idx..Len(drains[d].snapshot) :
                        drains[d].snapshot[i].id = id

(* The third drain that held item 1 has resolved, the item failed in all   *)
(* three and is gone, while a younger item that failed with it is kept.    *)
C22_Witness ==
    /\ NoDrainPending
    /\ included[1] = MAX_RETRIES
    /\ failed[1] = MAX_RETRIES
    /\ 1 \notin IdsOf(queue)
    /\ \E id \in IdsOf(queue) : included[id] = 1 /\ failed[id] = 1

----------------------------------------------------------------------------
(* C23: an error report submitted through trackError or enqueueErrorData   *)
(* is queued with priority CRITICAL, and a drain calls the transport for   *)
(* it before every item of priority HIGH or NORMAL, custom events enqueued *)
(* earlier included.                                                       *)
C23_ErrorsAreCritical ==
    /\ \A i \in 1..Len(queue) :
          queue[i].data \in ErrorPayloads => queue[i].priority = CRITICAL
    /\ \A d \in DrainIds :
          Started(d) =>
             \A i, j \in 1..Len(drains[d].snapshot) :
                (i < j /\ drains[d].snapshot[j].data \in ErrorPayloads) =>
                    drains[d].snapshot[i].priority = CRITICAL

----------------------------------------------------------------------------
(* C24: a call of trackError creates exactly one queue item for its        *)
(* report, and with every write succeeding the queue is one item longer,   *)
(* with errorTracking configured or not.                                   *)
C24_Step ==
    last'.op = "trackError" =>
        /\ nextId' = nextId + 1
        /\ last'.cuts = <<>> => Len(queue') = Len(queue) + 1

C24_OneItemPerError == [][C24_Step]_vars

====
